---------------------------- MODULE Spec2Model ----------------------------
(***************************************************************************)
(* The signal decision engine of the positioning-sentiment dashboard:      *)
(* the nearest-date resolver, the threshold classifier and its session     *)
(* state (StrategyDashboard), the sentiment/price reconciler and decision  *)
(* arbiter (SignalDisplay), and the dashboard that loads the data, fetches *)
(* the signal and wires the components together (CommodityDashboard, App). *)
(*                                                                         *)
(* JavaScript values are encoded as follows.  A nullable value is a        *)
(* sequence: <<>> for null/undefined and <<v>> for a present v.  A         *)
(* tri-state verdict is one of "true", "false", "null".  Index values are  *)
(* integers, thresholds are numbers (see Number).  A timestamp is an       *)
(* integer number of ticks, a calendar day is the integer number of the    *)
(* day; its string 'yyyy-MM-dd' is dateString of that number.              *)
(***************************************************************************)
EXTENDS Integers, Sequences, FiniteSets, TLC

\* ------------------------------------------------------------------ bounds
\* Ticks of the clock per calendar day (granularity of the timestamps).
TicksPerDay == 2
\* Last calendar day the model draws timestamps and target dates from.
MaxDay == 3
\* Longest time-series store drawn for the resolver.
MaxLen == 3
\* Largest news_count of a drawn signal.
MaxNews == 4
\* User actions on the StrategyDashboard (posture switch, toggle, threshold
\* edit) in a session of the classifier alone.
MaxActions == 3
\* The same for the session that replays the end-to-end example.
ExampleActions == 4
\* The same for the session that types into the threshold inputs.
InputActions == 2
\* The same for a session of the whole dashboard.
MainActions == 1
\* Accepted date selections and commodity changes in a session of the whole
\* dashboard.
MaxNav == 1

\* ------------------------------------------------------------- JS values
None == <<>>
Some(v) == <<v>>

Indices == {"commercials", "largeSpeculators", "smallSpeculators"}
Strategies == {"long", "short"}
Tri == {"true", "false", "null"}
Decisions == {"buy", "sell", "hold"}
Directions == {"up", "down", "neutral"}
Sentiments == {"bullish", "bearish", "neutral"}

\* A JS boolean as a tri-state verdict.
Bool3(b) == IF b THEN "true" ELSE "false"

\* ------------------------------------------------------- calendar days
\* format(date, 'yyyy-MM-dd'): the calendar day a timestamp falls on.
formatDay(time) == time \div TicksPerDay

\* parseISO('yyyy-MM-dd').getTime(): midnight of the calendar day.
parseISO(day) == day * TicksPerDay

Abs(x) == IF x < 0 THEN -x ELSE x

\* The decimal digits of a natural number, most significant first.
RECURSIVE digitsOf(_)
digitsOf(n) ==
  IF n < 10 THEN <<n>> ELSE Append(digitsOf(n \div 10), n % 10)

\* The text of a calendar day as a date input and format(..., 'yyyy-MM-dd')
\* write it, as the sequence of its character codes counted from "0" ("-"
\* is three below "0").  The days of the model lie a year apart: day d is
\* the first of January of the year 2020 + d, so the texts of two days
\* differ in the year.
dateString(day) == digitsOf(2020 + day) \o <<-3, 0, 1, -3, 0, 1>>

\* a <= b on strings: the order of the first character that differs, a
\* proper prefix coming first.
RECURSIVE stringLeq(_, _)
stringLeq(a, b) ==
  IF a = <<>> THEN TRUE
  ELSE IF b = <<>> THEN FALSE
  ELSE IF a[1] # b[1] THEN a[1] < b[1]
  ELSE stringLeq(Tail(a), Tail(b))

\* parseISO yields a valid date for a text with a four-digit year only: a
\* year of more digits needs a sign.
isValid(day) == Len(digitsOf(2020 + day)) = 4

\* format(parseISO(selectedDate), 'MMM dd, yyyy') throws a RangeError on an
\* invalid date, in the render of DateSelector and of StrategyDashboard.
renderThrows(selDate) == selDate # None /\ ~isValid(selDate[1])

\* ---------------------------------------------------------- numbers
\* A JS number a threshold can hold: the double nearest to m * 10^e, written
\* with an m that does not end in 0 (0 is m = 0, e = 0), or, with inf set,
\* Infinity (m = 1) and -Infinity (m = -1).  Numbers of at most nine
\* digits are told apart by their decimals as long as they are not below
\* the smallest normal double (2.2e-308).
RECURSIVE finite(_, _)
finite(m, e) ==
  IF m = 0 THEN [m |-> 0, e |-> 0, inf |-> FALSE]
  ELSE IF m % 10 = 0 THEN finite(m \div 10, e + 1)
  ELSE [m |-> m, e |-> e, inf |-> FALSE]

\* The number of an integer.
Number(i) == finite(i, 0)

Infinity == [m |-> 1, e |-> 0, inf |-> TRUE]

\* -x
negate(x) == [x EXCEPT !.m = 0 - x.m]

RECURSIVE pow10(_)
pow10(k) == IF k = 0 THEN 1 ELSE 10 * pow10(k - 1)

\* a < b on finite positive numbers: by the position of the leading digit,
\* then by the digits.
positiveLess(a, b) ==
  LET magA == Len(digitsOf(a.m)) + a.e
      magB == Len(digitsOf(b.m)) + b.e
  IN  IF magA # magB THEN magA < magB
      ELSE IF a.e >= b.e THEN a.m * pow10(a.e - b.e) < b.m
      ELSE a.m < b.m * pow10(b.e - a.e)

\* a < b on numbers.
numLess(a, b) ==
  IF a.inf \/ b.inf
  THEN \/ a.inf /\ a.m < 0 /\ ~(b.inf /\ b.m < 0)
       \/ b.inf /\ b.m > 0 /\ ~(a.inf /\ a.m > 0)
  ELSE IF a.m < 0 /\ b.m >= 0 THEN TRUE
  ELSE IF a.m = 0 THEN b.m > 0
  ELSE IF b.m <= 0 /\ a.m > 0 THEN FALSE
  ELSE IF a.m > 0 THEN positiveLess(a, b)
  ELSE positiveLess(negate(b), negate(a))

\* value > threshold and value < threshold for an index value of a record.
over(value, threshold) == numLess(threshold, Number(value))

under(value, threshold) == numLess(Number(value), threshold)

\* The nearest double of m * 10^e, m >= 0 of at most nine digits: Infinity
\* beyond the largest double (1.7976931348623157e308), 0 up to half the
\* smallest one (4.94e-324 / 2).
toDouble(m, e) ==
  LET x == finite(m, e)
      mag == Len(digitsOf(x.m)) + x.e
      lead == x.m * pow10(9 - Len(digitsOf(x.m)))
  IN  IF x.m = 0 THEN x
      ELSE IF mag > 309 \/ (mag = 309 /\ lead > 179769313) THEN Infinity
      ELSE IF mag < 0 - 323 \/ (mag = 0 - 323 /\ lead < 247032823)
      THEN Number(0)
      ELSE x

\* A ThresholdSet of numbers from one of integers.
Numbers(set) == [i \in DOMAIN set |-> Number(set[i])]

\* ------------------------------------------------- Threshold Registry
\* One entry of the registry: X, Y, Z (long: commercials, large, small) and
\* A, B, C (short: commercials, large, small).
ThresholdPair(X, Y, Z, A, B, C) ==
  [ long  |-> [commercials |-> X, largeSpeculators |-> Y,
               smallSpeculators |-> Z],
    short |-> [commercials |-> A, largeSpeculators |-> B,
               smallSpeculators |-> C] ]

\* A faulty registry: the short small speculators threshold of silver lies
\* at the long one.
OPTIMAL_THRESHOLDS_crossed ==
  "gold" :> ThresholdPair(85, 5, 10, 5, 95, 90) @@
  "coffee" :> ThresholdPair(85, 10, 10, 5, 95, 90) @@
  "ym" :> ThresholdPair(85, 5, 5, 5, 90, 95) @@
  "2yr_ZT" :> ThresholdPair(85, 5, 5, 5, 90, 90) @@
  "10yr_ZB" :> ThresholdPair(85, 5, 10, 5, 95, 90) @@
  "cattle" :> ThresholdPair(85, 10, 10, 5, 90, 95) @@
  "nq" :> ThresholdPair(85, 10, 10, 5, 90, 95) @@
  "silver" :> ThresholdPair(85, 10, 5, 10, 90, 5) @@
  "copper" :> ThresholdPair(85, 5, 5, 5, 95, 90) @@
  "es" :> ThresholdPair(85, 10, 10, 5, 90, 95) @@
  "30yr_UB" :> ThresholdPair(85, 10, 10, 5, 90, 90) @@
  "rty" :> ThresholdPair(85, 5, 10, 5, 90, 90) @@
  "yen" :> ThresholdPair(85, 5, 5, 5, 95, 95) @@
  "5yr_ZF" :> ThresholdPair(85, 10, 5, 5, 95, 95) @@
  "soybean_oil" :> ThresholdPair(95, 10, 10, 5, 90, 95) @@
  "nkd" :> ThresholdPair(85, 5, 10, 5, 95, 90) @@
  "cotton" :> ThresholdPair(85, 10, 5, 5, 95, 90) @@
  "dollar" :> ThresholdPair(85, 10, 10, 5, 95, 95) @@
  "sugar" :> ThresholdPair(85, 5, 5, 5, 95, 95) @@
  "euro" :> ThresholdPair(85, 5, 5, 5, 90, 90) @@
  "corn" :> ThresholdPair(95, 10, 10, 5, 90, 95) @@
  "cocoa" :> ThresholdPair(85, 10, 5, 5, 95, 95)

OPTIMAL_THRESHOLDS ==
  "gold" :> ThresholdPair(85, 5, 10, 5, 95, 90) @@
  "coffee" :> ThresholdPair(85, 10, 10, 5, 95, 90) @@
  "ym" :> ThresholdPair(85, 5, 5, 5, 90, 95) @@
  "2yr_ZT" :> ThresholdPair(85, 5, 5, 5, 90, 90) @@
  "10yr_ZB" :> ThresholdPair(85, 5, 10, 5, 95, 90) @@
  "cattle" :> ThresholdPair(85, 10, 10, 5, 90, 95) @@
  "nq" :> ThresholdPair(85, 10, 10, 5, 90, 95) @@
  "silver" :> ThresholdPair(85, 10, 5, 10, 90, 90) @@
  "copper" :> ThresholdPair(85, 5, 5, 5, 95, 90) @@
  "es" :> ThresholdPair(85, 10, 10, 5, 90, 95) @@
  "30yr_UB" :> ThresholdPair(85, 10, 10, 5, 90, 90) @@
  "rty" :> ThresholdPair(85, 5, 10, 5, 90, 90) @@
  "yen" :> ThresholdPair(85, 5, 5, 5, 95, 95) @@
  "5yr_ZF" :> ThresholdPair(85, 10, 5, 5, 95, 95) @@
  "soybean_oil" :> ThresholdPair(95, 10, 10, 5, 90, 95) @@
  "nkd" :> ThresholdPair(85, 5, 10, 5, 95, 90) @@
  "cotton" :> ThresholdPair(85, 10, 5, 5, 95, 90) @@
  "dollar" :> ThresholdPair(85, 10, 10, 5, 95, 95) @@
  "sugar" :> ThresholdPair(85, 5, 5, 5, 95, 95) @@
  "euro" :> ThresholdPair(85, 5, 5, 5, 90, 90) @@
  "corn" :> ThresholdPair(95, 10, 10, 5, 90, 95) @@
  "cocoa" :> ThresholdPair(85, 10, 5, 5, 95, 95)

\* The members a plain object inherits from Object.prototype.
ObjectPrototypeKeys ==
  {"constructor", "toString", "toLocaleString", "valueOf", "hasOwnProperty",
   "isPrototypeOf", "propertyIsEnumerable", "__proto__", "__defineGetter__",
   "__defineSetter__", "__lookupGetter__", "__lookupSetter__"}

\* getOptimalThresholds: OPTIMAL_THRESHOLDS[key] || null, the entry of a
\* commodity, the inherited member for a key that names one (each of them
\* is truthy), null for any other key.
getOptimalThresholds(key) ==
  IF key \in DOMAIN OPTIMAL_THRESHOLDS THEN Some(OPTIMAL_THRESHOLDS[key])
  ELSE IF key \in ObjectPrototypeKeys THEN Some([inherited |-> key])
  ELSE None

\* The initial long and short ThresholdSets of a mounted StrategyDashboard.
InitLongThresholds ==
  Numbers([commercials |-> 95, largeSpeculators |-> 5,
           smallSpeculators |-> 5])

InitShortThresholds ==
  Numbers([commercials |-> 5, largeSpeculators |-> 95,
           smallSpeculators |-> 95])

InitIndexEnabled ==
  [commercials |-> TRUE, largeSpeculators |-> TRUE, smallSpeculators |-> TRUE]

\* ------------------------------------------------ Nearest-Date Resolver
\* The scan of selectedDateData from position i on: best is the position of
\* the closest item so far (0: none yet, minDiff = Infinity), minDiff its
\* distance.  The best is replaced only on a strictly smaller distance.
\* A faulty scan: the best is replaced on an equal distance too, so the
\* later of two equidistant records wins.
RECURSIVE closestScan_lastWins(_, _, _, _, _)
closestScan_lastWins(data, targetTime, i, best, minDiff) ==
  IF i > Len(data) THEN best
  ELSE LET diff == Abs(data[i].time - targetTime)
       IN  IF best = 0 \/ diff <= minDiff
           THEN closestScan_lastWins(data, targetTime, i + 1, i, diff)
           ELSE closestScan_lastWins(data, targetTime, i + 1, best, minDiff)

RECURSIVE closestScan(_, _, _, _, _)
closestScan(data, targetTime, i, best, minDiff) ==
  IF i > Len(data) THEN best
  ELSE LET diff == Abs(data[i].time - targetTime)
       IN  IF best = 0 \/ diff < minDiff
           THEN closestScan(data, targetTime, i + 1, i, diff)
           ELSE closestScan(data, targetTime, i + 1, best, minDiff)

\* Position in data of the record selectedDateData returns; 0 when it
\* returns null (no selected date, or an empty store).
closestIdx(data, selDate) ==
  IF selDate = None \/ Len(data) = 0 THEN 0
  ELSE closestScan(data, parseISO(selDate[1]), 1, 0, 0)

selectedDateDataOf(data, selDate) ==
  IF closestIdx(data, selDate) = 0 THEN None
  ELSE Some(data[closestIdx(data, selDate)])

\* ------------------------------------------------- Threshold Classifier
\* The three index values of the resolved record, each present or null.
indexValuesOf(rec) ==
  IF rec = None
  THEN [commercials |-> None, largeSpeculators |-> None,
        smallSpeculators |-> None]
  ELSE [commercials |-> rec[1].ci, largeSpeculators |-> rec[1].li,
        smallSpeculators |-> rec[1].si]

\* A faulty classifier: the comparisons are not strict.
binarySignalOf_notStrict(rec, strat, en, lt, st) ==
  LET iv == indexValuesOf(rec) IN
  IF rec = None THEN "null"
  ELSE IF iv.commercials = None \/ iv.largeSpeculators = None
          \/ iv.smallSpeculators = None THEN "null"
  ELSE LET c == iv.commercials[1]
           l == iv.largeSpeculators[1]
           s == iv.smallSpeculators[1]
       IN  IF strat = "long"
           THEN Bool3(/\ (~en.commercials \/ ~under(c, lt.commercials))
                      /\ (~en.largeSpeculators \/ ~over(l, lt.largeSpeculators))
                      /\ (~en.smallSpeculators \/ ~over(s, lt.smallSpeculators)))
           ELSE Bool3(/\ (~en.commercials \/ ~over(c, st.commercials))
                      /\ (~en.largeSpeculators \/ ~under(l, st.largeSpeculators))
                      /\ (~en.smallSpeculators \/ ~under(s, st.smallSpeculators)))

\* A faulty classifier: an absent value of a disabled index is skipped
\* instead of making the verdict null.
binarySignalOf_skipDisabled(rec, strat, en, lt, st) ==
  LET iv == indexValuesOf(rec)
      Missing(i) == en[i] /\ iv[i] = None
      Passes(i, above, th) ==
        \/ ~en[i]
        \/ (iv[i] # None /\ IF above THEN over(iv[i][1], th[i])
                                      ELSE under(iv[i][1], th[i]))
  IN
  IF rec = None THEN "null"
  ELSE IF \E i \in Indices : Missing(i) THEN "null"
  ELSE IF strat = "long"
       THEN Bool3(/\ Passes("commercials", TRUE, lt)
                  /\ Passes("largeSpeculators", FALSE, lt)
                  /\ Passes("smallSpeculators", FALSE, lt))
       ELSE Bool3(/\ Passes("commercials", FALSE, st)
                  /\ Passes("largeSpeculators", TRUE, st)
                  /\ Passes("smallSpeculators", TRUE, st))

\* A faulty classifier: the enablement of the small speculators index is
\* ignored, its comparison always counts.
binarySignalOf_smallAlwaysOn(rec, strat, en, lt, st) ==
  LET iv == indexValuesOf(rec) IN
  IF rec = None THEN "null"
  ELSE IF iv.commercials = None \/ iv.largeSpeculators = None
          \/ iv.smallSpeculators = None THEN "null"
  ELSE LET c == iv.commercials[1]
           l == iv.largeSpeculators[1]
           s == iv.smallSpeculators[1]
       IN  IF strat = "long"
           THEN Bool3(/\ (~en.commercials \/ over(c, lt.commercials))
                      /\ (~en.largeSpeculators \/ under(l, lt.largeSpeculators))
                      /\ under(s, lt.smallSpeculators))
           ELSE Bool3(/\ (~en.commercials \/ under(c, st.commercials))
                      /\ (~en.largeSpeculators \/ over(l, st.largeSpeculators))
                      /\ over(s, st.smallSpeculators))

\* A faulty classifier: without a resolved record the verdict is false
\* instead of null.
binarySignalOf_noRecordFalse(rec, strat, en, lt, st) ==
  LET iv == indexValuesOf(rec) IN
  IF rec = None THEN "false"
  ELSE IF iv.commercials = None \/ iv.largeSpeculators = None
          \/ iv.smallSpeculators = None THEN "null"
  ELSE LET c == iv.commercials[1]
           l == iv.largeSpeculators[1]
           s == iv.smallSpeculators[1]
       IN  IF strat = "long"
           THEN Bool3(/\ (~en.commercials \/ over(c, lt.commercials))
                      /\ (~en.largeSpeculators \/ under(l, lt.largeSpeculators))
                      /\ (~en.smallSpeculators \/ under(s, lt.smallSpeculators)))
           ELSE Bool3(/\ (~en.commercials \/ under(c, st.commercials))
                      /\ (~en.largeSpeculators \/ over(l, st.largeSpeculators))
                      /\ (~en.smallSpeculators \/ over(s, st.smallSpeculators)))

\* A faulty classifier: a disabled index counts as a failed comparison.
binarySignalOf_disabledFails(rec, strat, en, lt, st) ==
  LET iv == indexValuesOf(rec) IN
  IF rec = None THEN "null"
  ELSE IF iv.commercials = None \/ iv.largeSpeculators = None
          \/ iv.smallSpeculators = None THEN "null"
  ELSE LET c == iv.commercials[1]
           l == iv.largeSpeculators[1]
           s == iv.smallSpeculators[1]
       IN  IF strat = "long"
           THEN Bool3(/\ (en.commercials /\ over(c, lt.commercials))
                      /\ (en.largeSpeculators /\ under(l, lt.largeSpeculators))
                      /\ (en.smallSpeculators /\ under(s, lt.smallSpeculators)))
           ELSE Bool3(/\ (en.commercials /\ under(c, st.commercials))
                      /\ (en.largeSpeculators /\ over(l, st.largeSpeculators))
                      /\ (en.smallSpeculators /\ over(s, st.smallSpeculators)))

\* binarySignal: the verdict of one posture, "null" when there is no
\* resolved record or any of the three index values is null.
binarySignalOf(rec, strat, en, lt, st) ==
  LET iv == indexValuesOf(rec) IN
  IF rec = None THEN "null"
  ELSE IF iv.commercials = None \/ iv.largeSpeculators = None
          \/ iv.smallSpeculators = None THEN "null"
  ELSE LET c == iv.commercials[1]
           l == iv.largeSpeculators[1]
           s == iv.smallSpeculators[1]
       IN  IF strat = "long"
           THEN Bool3(/\ (~en.commercials \/ over(c, lt.commercials))
                      /\ (~en.largeSpeculators \/ under(l, lt.largeSpeculators))
                      /\ (~en.smallSpeculators \/ under(s, lt.smallSpeculators)))
           ELSE Bool3(/\ (~en.commercials \/ under(c, st.commercials))
                      /\ (~en.largeSpeculators \/ over(l, st.largeSpeculators))
                      /\ (~en.smallSpeculators \/ over(s, st.smallSpeculators)))

\* ------------------------------------------- Sentiment-Price Reconciler
\* A faulty reconciler: a date without news is not counted as a failure.
newsFailure_ignoresCount(signal) ==
  \/ (signal.price_direction = "up" /\ signal.news_sentiment = "bearish")
  \/ (signal.price_direction = "down" /\ signal.news_sentiment = "bullish")
  \/ signal.price_direction = "neutral"

newsFailure(signal) ==
  \/ (signal.price_direction = "up" /\ signal.news_sentiment = "bearish")
  \/ (signal.price_direction = "down" /\ signal.news_sentiment = "bullish")
  \/ signal.price_direction = "neutral"
  \/ signal.news_count = 0

\* ----------------------------------------------------- Decision Arbiter
\* signal?.signal || 'hold': the upstream baseline, hold when it is empty.
baselineSignal(signal) ==
  IF signal = None THEN "hold"
  ELSE IF signal[1].signal = "" THEN "hold" ELSE signal[1].signal

\* A faulty arbiter: the no-news-failure rule is tried first.
displaySignal_holdFirst(binarySignalsProp, signal) ==
  IF binarySignalsProp = None \/ signal = None THEN baselineSignal(signal)
  ELSE LET nf == newsFailure(signal[1])
           hasLongBinary == binarySignalsProp[1].long = "true"
           hasShortBinary == binarySignalsProp[1].short = "true"
       IN  IF ~nf THEN "hold"
           ELSE IF hasLongBinary /\ hasShortBinary THEN "buy"
           ELSE IF nf /\ hasLongBinary THEN "buy"
           ELSE IF nf /\ hasShortBinary THEN "sell"
           ELSE "hold"

\* A faulty arbiter: a null verdict counts as true (tested as "not false").
displaySignal_nullIsTrue(binarySignalsProp, signal) ==
  IF binarySignalsProp = None \/ signal = None THEN baselineSignal(signal)
  ELSE LET nf == newsFailure(signal[1])
           hasLongBinary == binarySignalsProp[1].long # "false"
           hasShortBinary == binarySignalsProp[1].short # "false"
       IN  IF hasLongBinary /\ hasShortBinary THEN "buy"
           ELSE IF nf /\ hasLongBinary THEN "buy"
           ELSE IF nf /\ hasShortBinary THEN "sell"
           ELSE "hold"

\* A faulty arbiter: it falls back to the baseline when both verdicts are
\* null, not only when no binarySignals prop is passed.
displaySignal_nullFallback(binarySignalsProp, signal) ==
  IF binarySignalsProp = None \/ signal = None THEN baselineSignal(signal)
  ELSE IF binarySignalsProp[1].long = "null"
          /\ binarySignalsProp[1].short = "null" THEN baselineSignal(signal)
  ELSE LET nf == newsFailure(signal[1])
           hasLongBinary == binarySignalsProp[1].long = "true"
           hasShortBinary == binarySignalsProp[1].short = "true"
       IN  IF hasLongBinary /\ hasShortBinary THEN "buy"
           ELSE IF nf /\ hasLongBinary THEN "buy"
           ELSE IF nf /\ hasShortBinary THEN "sell"
           ELSE "hold"

\* displaySignal of SignalDisplay, for the binarySignals prop (None when the
\* parent passes none) and the signal prop.
displaySignal(binarySignalsProp, signal) ==
  IF binarySignalsProp = None \/ signal = None THEN baselineSignal(signal)
  ELSE LET nf == newsFailure(signal[1])
           hasLongBinary == binarySignalsProp[1].long = "true"
           hasShortBinary == binarySignalsProp[1].short = "true"
       IN  IF hasLongBinary /\ hasShortBinary THEN "buy"
           ELSE IF nf /\ hasLongBinary THEN "buy"
           ELSE IF nf /\ hasShortBinary THEN "sell"
           ELSE IF ~nf THEN "hold"
           ELSE IF nf /\ ~hasLongBinary /\ ~hasShortBinary THEN "hold"
           ELSE "hold"

\* A faulty rule list: rule 4 is missing.
displayRule_noRule4(binarySignalsProp, signal) ==
  IF binarySignalsProp = None \/ signal = None THEN "fallback"
  ELSE LET nf == newsFailure(signal[1])
           hasLongBinary == binarySignalsProp[1].long = "true"
           hasShortBinary == binarySignalsProp[1].short = "true"
       IN  IF hasLongBinary /\ hasShortBinary THEN "rule1"
           ELSE IF nf /\ hasLongBinary THEN "rule2"
           ELSE IF nf /\ hasShortBinary THEN "rule3"
           ELSE IF nf /\ ~hasLongBinary /\ ~hasShortBinary THEN "rule5"
           ELSE "default"

\* The return statement of displaySignal that yields the decision: the
\* fallback, one of the rules 1 to 5, or the default after them.
displayRule(binarySignalsProp, signal) ==
  IF binarySignalsProp = None \/ signal = None THEN "fallback"
  ELSE LET nf == newsFailure(signal[1])
           hasLongBinary == binarySignalsProp[1].long = "true"
           hasShortBinary == binarySignalsProp[1].short = "true"
       IN  IF hasLongBinary /\ hasShortBinary THEN "rule1"
           ELSE IF nf /\ hasLongBinary THEN "rule2"
           ELSE IF nf /\ hasShortBinary THEN "rule3"
           ELSE IF ~nf THEN "rule4"
           ELSE IF nf /\ ~hasLongBinary /\ ~hasShortBinary THEN "rule5"
           ELSE "default"

\* The branch of the justification text for a decision shown: for hold, no
\* news failure, no binary signal, or unable to determine; binarySignals?.x
\* of an absent prop is undefined, which is not true.
signalReason(binarySignalsProp, signal, shown) ==
  IF shown = "hold"
  THEN LET nf == newsFailure(signal[1])
           hasLongBinary ==
             binarySignalsProp # None /\ binarySignalsProp[1].long = "true"
           hasShortBinary ==
             binarySignalsProp # None /\ binarySignalsProp[1].short = "true"
       IN  IF ~nf THEN "hold-no-news-failure"
           ELSE IF ~hasLongBinary /\ ~hasShortBinary THEN "hold-no-binary"
           ELSE "hold-unable"
  ELSE IF shown = "buy" THEN "buy-long-active"
  ELSE "sell-short-active"

\* What SignalDisplay renders: the loading branch, the no-signal branch, or
\* the decision.
renderSignalDisplay(binarySignalsProp, isLoading, signal) ==
  IF isLoading THEN "loading"
  ELSE IF signal = None THEN "no-signal"
  ELSE displaySignal(binarySignalsProp, signal)


\* ------------------------------------------------------- handleThresholdChange
\* Characters a manual threshold entry of the model is typed from: the
\* digits, the signs, the decimal point, the exponent letters, the blank,
\* the letters of Infinity and the letters a, b, c and x.
EntryChars ==
  {"0", "1", "2", "3", "4", "5", "6", "7", "8", "9", "-", "+", ".", "e", "E",
   " ", "I", "n", "f", "i", "t", "y", "a", "b", "c", "x"}

\* The value of a digit.
DigitVal ==
  [c \in {"0", "1", "2", "3", "4", "5", "6", "7", "8", "9"} |->
     CASE c = "0" -> 0 [] c = "1" -> 1 [] c = "2" -> 2 [] c = "3" -> 3
       [] c = "4" -> 4 [] c = "5" -> 5 [] c = "6" -> 6 [] c = "7" -> 7
       [] c = "8" -> 8 [] c = "9" -> 9]

\* The leading run of digits of a text from position i on, as a number;
\* acc is the number read so far and n the count of digits read.
RECURSIVE digitsPrefix(_, _, _, _)
digitsPrefix(text, i, acc, n) ==
  IF i > Len(text) \/ text[i] \notin DOMAIN DigitVal
  THEN [value |-> acc, count |-> n]
  ELSE digitsPrefix(text, i + 1, 10 * acc + DigitVal[text[i]], n + 1)

\* The position of the first character from i on that is not a blank.
RECURSIVE skipBlanks(_, _)
skipBlanks(text, i) ==
  IF i <= Len(text) /\ text[i] = " " THEN skipBlanks(text, i + 1) ELSE i

\* The text has the word at position i.
startsWith(text, i, word) ==
  /\ i + Len(word) - 1 <= Len(text)
  /\ SubSeq(text, i, i + Len(word) - 1) = word

InfinityWord == <<"I", "n", "f", "i", "n", "i", "t", "y">>

\* parseFloat on a text over EntryChars with at most nine digits in its
\* mantissa and in its exponent: after leading blanks and an optional sign,
\* the word Infinity, or digits with an optional fraction (one digit at
\* least before or after the point) and an optional exponent (e or E, an
\* optional sign, one digit at least); what follows is ignored.  None is
\* NaN.
parseFloat(text) ==
  LET start == skipBlanks(text, 1)
      signed == start <= Len(text) /\ text[start] \in {"-", "+"}
      neg == signed /\ text[start] = "-"
      i0 == IF signed THEN start + 1 ELSE start
      int == digitsPrefix(text, i0, 0, 0)
      i1 == i0 + int.count
      dot == i1 <= Len(text) /\ text[i1] = "."
      frac == IF dot THEN digitsPrefix(text, i1 + 1, int.value, 0)
              ELSE [value |-> int.value, count |-> 0]
      i2 == IF dot THEN i1 + 1 + frac.count ELSE i1
      hasE == i2 <= Len(text) /\ text[i2] \in {"e", "E"}
      esigned == hasE /\ i2 + 1 <= Len(text) /\ text[i2 + 1] \in {"-", "+"}
      edigits == IF hasE
                 THEN digitsPrefix(text, IF esigned THEN i2 + 2 ELSE i2 + 1,
                                   0, 0)
                 ELSE [value |-> 0, count |-> 0]
      exp == IF esigned /\ text[i2 + 1] = "-" THEN 0 - edigits.value
             ELSE edigits.value
      x == toDouble(frac.value, exp - frac.count)
  IN  IF startsWith(text, i0, InfinityWord)
      THEN Some(IF neg THEN negate(Infinity) ELSE Infinity)
      ELSE IF int.count + frac.count = 0 THEN None
      ELSE Some(IF neg THEN negate(x) ELSE x)

\* A faulty coercion: the number is clamped to [0, 100].
numValue_clamped(text) ==
  IF parseFloat(text) = None \/ parseFloat(text) = Some(Number(0))
  THEN Number(0)
  ELSE IF numLess(parseFloat(text)[1], Number(0)) THEN Number(0)
  ELSE IF numLess(Number(100), parseFloat(text)[1]) THEN Number(100)
  ELSE parseFloat(text)[1]

\* parseFloat(value) || 0: NaN and 0 are both falsy.
numValue(text) ==
  IF parseFloat(text) = None \/ parseFloat(text) = Some(Number(0))
  THEN Number(0)
  ELSE parseFloat(text)[1]

\* ------------------------------------------------------- data endpoint rows
\* .sort((a, b) => a.time - b.time): a stable ascending sort by time.
RECURSIVE insertByTime(_, _)
insertByTime(sorted, item) ==
  IF sorted = <<>> THEN <<item>>
  ELSE IF sorted[Len(sorted)].time <= item.time THEN Append(sorted, item)
  ELSE Append(insertByTime(SubSeq(sorted, 1, Len(sorted) - 1), item),
              sorted[Len(sorted)])

RECURSIVE sortByTime(_)
sortByTime(items) ==
  IF items = <<>> THEN <<>>
  ELSE insertByTime(sortByTime(SubSeq(items, 1, Len(items) - 1)),
                    items[Len(items)])

\* .filter(item => item.time !== null), after the map that turns a row's
\* time text into a Date (null when the row has none).
RECURSIVE dropUndated(_)
dropUndated(rows) ==
  IF rows = <<>> THEN <<>>
  ELSE IF rows[1].time = None THEN dropUndated(Tail(rows))
  ELSE <<[time |-> rows[1].time[1], ci |-> rows[1].ci, li |-> rows[1].li,
          si |-> rows[1].si]>> \o dropUndated(Tail(rows))

\* The Time-Series Store built from the rows of a data response.
loadRows(rows) == sortByTime(dropUndated(rows))

\* ------------------------------------------------------------------ state
VARIABLES
  root,            \* the mounted dashboard: "App" or "CommodityDashboard"
  commodityKey,    \* prop commodityKey ("gold" under App)
  commodityData,   \* the Time-Series Store (commodityData / goldData)
  selectedDate,    \* None or Some(day)
  tradingSignal,   \* None or Some(ExternalSignal)
  loading,         \* the data-loading flag
  signalLoading,   \* the signal-loading flag
  binarySignals,   \* CommodityDashboard's BinaryVerdict state
  dataFetches,     \* data fetches in flight: the commodity of each
  signalFetches,   \* signal fetches in flight: [commodity, date] of each
  strategy,        \* StrategyDashboard: active posture
  indexEnabled,    \* StrategyDashboard: IndexEnablement mask
  longThresholds,  \* StrategyDashboard: long ThresholdSet
  shortThresholds, \* StrategyDashboard: short ThresholdSet
  actionsLeft,     \* StrategyDashboard actions the session may still take
  navLeft,         \* date selections and commodity changes still to come
  shownBinary,     \* binarySignal as StrategyDashboard last rendered it
  shownDecision,   \* what SignalDisplay last rendered
  effectDeps       \* the dependencies the dashboard's effects last ran with

dashVars == <<root, commodityKey, commodityData, selectedDate, tradingSignal,
              loading, signalLoading, binarySignals, dataFetches,
              signalFetches, effectDeps>>

strategyVars == <<strategy, indexEnabled, longThresholds, shortThresholds>>

budgetVars == <<actionsLeft, navLeft>>

vars == <<dashVars, strategyVars, budgetVars, shownBinary, shownDecision>>

\* ------------------------------------------------------------ rendering
\* The dependencies of the two effects in the committed render.
currentDeps == [commodityKey |-> commodityKey, selectedDate |-> selectedDate]

\* A render has been committed whose effects have not run yet: React runs
\* them before it handles any later event or response.
EffectsPending == effectDeps # currentDeps

\* The dashboard is mounted and at rest: no render has thrown (an uncaught
\* error unmounts the whole tree) and no effect is pending.
Idle == ~renderThrows(selectedDate) /\ ~EffectsPending

\* The binarySignals prop SignalDisplay receives: App passes none.
binarySignalsProp == IF root = "App" THEN None ELSE Some(binarySignals)

selectedDateData == selectedDateDataOf(commodityData, selectedDate)

indexValues == indexValuesOf(selectedDateData)

\* binarySignal of the mounted StrategyDashboard, for its active posture.
binarySignal ==
  binarySignalOf(selectedDateData, strategy, indexEnabled, longThresholds,
                 shortThresholds)

\* What the two children render for a state of the dashboard: while the data
\* is loading the dashboard renders neither child.
renderBinary(isLoading, data, selDate, strat, en, lt, st) ==
  IF isLoading THEN "unmounted"
  ELSE binarySignalOf(selectedDateDataOf(data, selDate), strat, en, lt, st)

\* A faulty display: the memoised decision is not recomputed when the signal
\* prop changes, a decision once shown stays until SignalDisplay leaves its
\* decision branch.
renderDecision_stale(rootKind, isLoading, verdicts, isSignalLoading, signal) ==
  IF isLoading THEN "unmounted"
  ELSE IF isSignalLoading THEN "loading"
  ELSE IF signal = None THEN "no-signal"
  ELSE IF shownDecision \in Decisions THEN shownDecision
  ELSE displaySignal(IF rootKind = "App" THEN None ELSE Some(verdicts),
                     signal)

renderDecision(rootKind, isLoading, verdicts, isSignalLoading, signal) ==
  IF isLoading THEN "unmounted"
  ELSE renderSignalDisplay(IF rootKind = "App" THEN None ELSE Some(verdicts),
                           isSignalLoading, signal)

\* Nothing of the two children is on screen while the data is loading, and
\* after a render that threw.
Rendered ==
  /\ shownBinary = renderBinary(loading \/ renderThrows(selectedDate),
                                commodityData, selectedDate, strategy,
                                indexEnabled, longThresholds,
                                shortThresholds)
  /\ shownDecision = renderDecision(root,
                                    loading \/ renderThrows(selectedDate),
                                    binarySignals, signalLoading,
                                    tradingSignal)

\* The render that follows every state change.
Render ==
  /\ shownBinary' = renderBinary(loading' \/ renderThrows(selectedDate'),
                                 commodityData', selectedDate', strategy',
                                 indexEnabled', longThresholds',
                                 shortThresholds')
  /\ shownDecision' = renderDecision(root',
                                     loading' \/ renderThrows(selectedDate'),
                                     binarySignals', signalLoading',
                                     tradingSignal')

\* A StrategyDashboard that mounts starts from its initial state.
StrategyMounted ==
  /\ strategy = "long"
  /\ indexEnabled = InitIndexEnabled
  /\ longThresholds = InitLongThresholds
  /\ shortThresholds = InitShortThresholds

\* Unmounting the StrategyDashboard discards its state: the next mount
\* starts from the initial state again.
StrategyRemount ==
  /\ strategy' = "long"
  /\ indexEnabled' = InitIndexEnabled
  /\ longThresholds' = InitLongThresholds
  /\ shortThresholds' = InitShortThresholds

\* ------------------------------------------------------ StrategyDashboard
\* The controls are rendered once the data is loaded and a date is selected.
StrategyControls == Idle /\ ~loading /\ selectedDate # None

\* One user action on the StrategyDashboard, within the session's budget.
UserActs ==
  /\ actionsLeft > 0
  /\ actionsLeft' = actionsLeft - 1
  /\ UNCHANGED navLeft

\* Manual threshold entries the user types.
ThresholdEntries ==
  { <<>>, <<"a", "b", "c">>, <<"8", "5">>, <<"1", "0">>, <<"9", "0">> }

setStrategy(s) ==
  /\ StrategyControls
  /\ UserActs
  /\ strategy' = s
  /\ UNCHANGED <<dashVars, indexEnabled, longThresholds, shortThresholds>>
  /\ Render

handleIndexToggle(index) ==
  /\ StrategyControls
  /\ UserActs
  /\ indexEnabled' = [indexEnabled EXCEPT ![index] = ~indexEnabled[index]]
  /\ UNCHANGED <<dashVars, strategy, longThresholds, shortThresholds>>
  /\ Render

\* A faulty edit: the entry is written to the ThresholdSets of both postures.
handleThresholdChange_bothPostures(strategyType, index, value) ==
  /\ StrategyControls
  /\ strategyType = strategy
  /\ indexEnabled[index]
  /\ UserActs
  /\ longThresholds' = [longThresholds EXCEPT ![index] = numValue(value)]
  /\ shortThresholds' = [shortThresholds EXCEPT ![index] = numValue(value)]
  /\ UNCHANGED <<dashVars, strategy, indexEnabled>>
  /\ Render

\* The threshold input of an index is rendered only while it is enabled, and
\* edits the ThresholdSet of the active posture.
handleThresholdChange(strategyType, index, value) ==
  /\ StrategyControls
  /\ strategyType = strategy
  /\ indexEnabled[index]
  /\ UserActs
  /\ IF strategyType = "long"
     THEN /\ longThresholds' =
               [longThresholds EXCEPT ![index] = numValue(value)]
          /\ UNCHANGED shortThresholds
     ELSE /\ shortThresholds' =
               [shortThresholds EXCEPT ![index] = numValue(value)]
          /\ UNCHANGED longThresholds
  /\ UNCHANGED <<dashVars, strategy, indexEnabled>>
  /\ Render

\* The entries typed in a session of the whole dashboard.
MainEntries == { <<>>, <<"8", "5">> }

StrategyNext(entries) ==
  \/ \E s \in Strategies : setStrategy(s)
  \/ \E i \in Indices : handleIndexToggle(i)
  \/ \E t \in Strategies, i \in Indices, v \in entries :
       handleThresholdChange(t, i, v)

\* ------------------------------------------------------------- collaborators
Commodities == {"gold", "coffee"}

Row(t, c, l, sm) == [time |-> t, ci |-> c, li |-> l, si |-> sm]

\* Arrays of rows GET /api/{commodity}/data may return: dated and ordered,
\* unordered with a repeated date and an undated row, one row with an index
\* missing, undated rows only, and no rows.
DataResponses ==
  { << Row(Some(parseISO(1)), Some(90), Some(3), Some(7)),
       Row(Some(parseISO(2)), Some(3), Some(97), Some(97)),
       Row(Some(parseISO(3)), Some(97), Some(3), Some(3)) >>,
    << Row(Some(parseISO(3)), Some(50), Some(50), Some(50)),
       Row(None, Some(1), Some(1), Some(1)),
       Row(Some(parseISO(1)), Some(0), Some(0), Some(0)),
       Row(Some(parseISO(3)), Some(97), Some(3), Some(3)) >>,
    << Row(Some(parseISO(2)), Some(97), None, Some(3)) >>,
    << Row(None, Some(1), Some(1), Some(1)) >>,
    << >> }

Signal(d, dir, sent, n, sig) ==
  [date |-> d, price_direction |-> dir, news_sentiment |-> sent,
   news_count |-> n, signal |-> sig]

\* ExternalSignals GET /api/{commodity}/signal/{date} may return for a date.
SignalResponses(d) ==
  { Signal(d, "up", "bullish", 2, "buy"),
    Signal(d, "down", "bullish", 4, "sell") }

\* The sequence without its i-th element.
RemoveAt(seq, i) == SubSeq(seq, 1, i - 1) \o SubSeq(seq, i + 1, Len(seq))

\* ------------------------------------------------- CommodityDashboard / App
\* The effect on [commodityKey], run for a changed key: fetchCommodityData
\* raises the loading flag, the loading screen replaces the children and the
\* StrategyDashboard unmounts.
DataEffect ==
  IF commodityKey # effectDeps.commodityKey
  THEN /\ dataFetches' = Append(dataFetches, commodityKey)
       /\ loading' = TRUE
       /\ StrategyRemount
  ELSE UNCHANGED <<dataFetches, loading, strategyVars>>

\* The effect on [selectedDate, commodityKey], run for a changed pair: with
\* a selected date it starts fetchTradingSignal, which raises the
\* signal-loading flag.
SignalEffect ==
  IF selectedDate # None
  THEN /\ signalFetches' =
            Append(signalFetches,
                   [commodity |-> commodityKey, date |-> selectedDate[1]])
       /\ signalLoading' = TRUE
  ELSE UNCHANGED <<signalFetches, signalLoading>>

\* The effects of a committed render whose dependencies changed, and the
\* render of the state they set.
runEffects ==
  /\ EffectsPending
  /\ ~renderThrows(selectedDate)
  /\ DataEffect
  /\ SignalEffect
  /\ effectDeps' = currentDeps
  /\ UNCHANGED <<root, commodityKey, commodityData, selectedDate,
                 tradingSignal, binarySignals, budgetVars>>
  /\ Render

\* A faulty load: the date of the first record is selected, not the last.
fetchCommodityDataOk_selectsFirst(i, rows) ==
  /\ Idle
  /\ i \in 1..Len(dataFetches)
  /\ dataFetches' = RemoveAt(dataFetches, i)
  /\ commodityData' = loadRows(rows)
  /\ selectedDate' =
       IF Len(loadRows(rows)) > 0
       THEN Some(formatDay(loadRows(rows)[1].time))
       ELSE selectedDate
  /\ loading' = FALSE
  /\ UNCHANGED <<root, commodityKey, tradingSignal, signalLoading,
                 binarySignals, signalFetches, strategyVars, budgetVars,
                 effectDeps>>
  /\ Render

\* fetchCommodityData resolving with the rows of a response: the store is
\* replaced, the most recent date is selected, the loading flag drops.
fetchCommodityDataOk(i, rows) ==
  /\ Idle
  /\ i \in 1..Len(dataFetches)
  /\ dataFetches' = RemoveAt(dataFetches, i)
  /\ commodityData' = loadRows(rows)
  /\ selectedDate' =
       IF Len(loadRows(rows)) > 0
       THEN Some(formatDay(loadRows(rows)[Len(loadRows(rows))].time))
       ELSE selectedDate
  /\ loading' = FALSE
  /\ UNCHANGED <<root, commodityKey, tradingSignal, signalLoading,
                 binarySignals, signalFetches, strategyVars, budgetVars,
                 effectDeps>>
  /\ Render

\* fetchCommodityData rejecting: the catch branch, then finally.
fetchCommodityDataFail(i) ==
  /\ Idle
  /\ i \in 1..Len(dataFetches)
  /\ dataFetches' = RemoveAt(dataFetches, i)
  /\ loading' = FALSE
  /\ UNCHANGED <<root, commodityKey, commodityData, selectedDate,
                 tradingSignal, signalLoading, binarySignals, signalFetches,
                 strategyVars, budgetVars, effectDeps>>
  /\ Render

\* fetchTradingSignal resolving.
fetchTradingSignalOk(i, response) ==
  /\ Idle
  /\ i \in 1..Len(signalFetches)
  /\ response \in SignalResponses(signalFetches[i].date)
  /\ signalFetches' = RemoveAt(signalFetches, i)
  /\ tradingSignal' = Some(response)
  /\ signalLoading' = FALSE
  /\ UNCHANGED <<root, commodityKey, commodityData, selectedDate, loading,
                 binarySignals, dataFetches, strategyVars, budgetVars,
                 effectDeps>>
  /\ Render

\* A faulty catch branch: the signal held before the failure is kept.
fetchTradingSignalFail_keepsSignal(i) ==
  /\ Idle
  /\ i \in 1..Len(signalFetches)
  /\ signalFetches' = RemoveAt(signalFetches, i)
  /\ signalLoading' = FALSE
  /\ UNCHANGED <<root, commodityKey, commodityData, selectedDate,
                 tradingSignal, loading, binarySignals, dataFetches,
                 strategyVars, budgetVars, effectDeps>>
  /\ Render

\* A faulty catch branch: the failed request is issued again.
fetchTradingSignalFail_retries(i) ==
  /\ Idle
  /\ i \in 1..Len(signalFetches)
  /\ signalFetches' = Append(RemoveAt(signalFetches, i), signalFetches[i])
  /\ tradingSignal' = None
  /\ signalLoading' = TRUE
  /\ UNCHANGED <<root, commodityKey, commodityData, selectedDate, loading,
                 binarySignals, dataFetches, strategyVars, budgetVars,
                 effectDeps>>
  /\ Render

\* fetchTradingSignal rejecting.
fetchTradingSignalFail(i) ==
  /\ Idle
  /\ i \in 1..Len(signalFetches)
  /\ signalFetches' = RemoveAt(signalFetches, i)
  /\ tradingSignal' = None
  /\ signalLoading' = FALSE
  /\ UNCHANGED <<root, commodityKey, commodityData, selectedDate, loading,
                 binarySignals, dataFetches, strategyVars, budgetVars,
                 effectDeps>>
  /\ Render

\* DateSelector.handleDateInputChange: an entry whose text lies between the
\* texts minStr and maxStr is passed to handleDateChange, any other is
\* answered with an alert.
handleDateInputChange(inputDate) ==
  /\ Idle
  /\ ~loading
  /\ Len(commodityData) > 0
  /\ LET minStr == dateString(formatDay(commodityData[1].time))
         maxStr ==
           dateString(formatDay(commodityData[Len(commodityData)].time))
     IN  IF /\ stringLeq(minStr, dateString(inputDate))
            /\ stringLeq(dateString(inputDate), maxStr)
         THEN /\ navLeft > 0
              /\ navLeft' = navLeft - 1
              /\ selectedDate' = Some(inputDate)
         ELSE UNCHANGED <<selectedDate, navLeft>>
  /\ UNCHANGED <<root, commodityKey, commodityData, tradingSignal, loading,
                 signalLoading, binarySignals, dataFetches, signalFetches,
                 strategyVars, actionsLeft, effectDeps>>
  /\ Render

\* The route changes the commodityKey prop: the dashboard renders with the
\* new key, its state as it was.
commodityChange(key) ==
  /\ Idle
  /\ root = "CommodityDashboard"
  /\ key # commodityKey
  /\ navLeft > 0
  /\ navLeft' = navLeft - 1
  /\ commodityKey' = key
  /\ UNCHANGED <<root, commodityData, selectedDate, tradingSignal, loading,
                 signalLoading, binarySignals, dataFetches, signalFetches,
                 strategyVars, actionsLeft, effectDeps>>
  /\ Render

\* Date texts with a five-digit year a date input accepts: the years 20200,
\* 20210, ..., whose text begins with the text of a year of the model.
FarDays == { (2020 + k) * 10 - 2020 : k \in 0..MaxDay }

\* ---------------------------------------------------------- the dashboard
\* After the mount effects: the data fetch is in flight, no date is selected.
Init ==
  /\ root \in {"App", "CommodityDashboard"}
  /\ commodityKey \in (IF root = "App" THEN {"gold"} ELSE Commodities)
  /\ commodityData = <<>>
  /\ selectedDate = None
  /\ tradingSignal = None
  /\ loading = TRUE
  /\ signalLoading = FALSE
  /\ binarySignals = [long |-> "null", short |-> "null"]
  /\ dataFetches = <<commodityKey>>
  /\ signalFetches = <<>>
  /\ effectDeps = currentDeps
  /\ StrategyMounted
  /\ actionsLeft = MainActions
  /\ navLeft = MaxNav
  /\ Rendered

Next ==
  \/ \E i \in DOMAIN dataFetches, rows \in DataResponses :
       fetchCommodityDataOk(i, rows)
  \/ \E i \in DOMAIN dataFetches : fetchCommodityDataFail(i)
  \/ \E i \in DOMAIN signalFetches :
       \E r \in SignalResponses(signalFetches[i].date) :
         fetchTradingSignalOk(i, r)
  \/ \E i \in DOMAIN signalFetches : fetchTradingSignalFail(i)
  \/ \E d \in 0..(MaxDay + 1) \cup FarDays : handleDateInputChange(d)
  \/ \E k \in Commodities : commodityChange(k)
  \/ runEffects
  \/ StrategyNext(MainEntries)

Spec == Init /\ [][Next]_vars

\* ------------------------------------------- SignalDisplay on its own
\* Every ExternalSignal with a news_count up to MaxNews; signal is the
\* upstream baseline classification, "" when the response carries none.
AllSignals ==
  { Signal(0, dir, sent, n, sig) :
      dir \in Directions, sent \in Sentiments, n \in 0..MaxNews,
      sig \in Decisions \cup {""} }

AllVerdicts == [long : Tri, short : Tri]

NoVerdicts == [long |-> "null", short |-> "null"]

\* The state of a loaded dashboard with nothing in flight, given its store,
\* selected date, signal and flags.
Settled(data, selDate, signal, isSignalLoading) ==
  /\ commodityData = data
  /\ selectedDate = selDate
  /\ tradingSignal = signal
  /\ loading = FALSE
  /\ signalLoading = isSignalLoading
  /\ dataFetches = <<>>
  /\ signalFetches = <<>>
  /\ effectDeps = currentDeps
  /\ StrategyMounted
  /\ navLeft = 0

\* SignalDisplay rendered with every combination of its props.
InitArbiter ==
  /\ root \in {"App", "CommodityDashboard"}
  /\ commodityKey = "gold"
  /\ binarySignals \in (IF root = "App" THEN {NoVerdicts} ELSE AllVerdicts)
  /\ \E sig \in {None} \cup { Some(x) : x \in AllSignals },
        ld \in BOOLEAN :
       Settled(<<>>, None, sig, ld)
  /\ actionsLeft = 0
  /\ Rendered

\* The parent re-renders SignalDisplay with another binarySignals prop,
\* another signal prop, or another loading prop.
signalDisplayProps(verdicts, signal, isSignalLoading) ==
  /\ binarySignals' = verdicts
  /\ tradingSignal' = signal
  /\ signalLoading' = isSignalLoading
  /\ UNCHANGED <<root, commodityKey, commodityData, selectedDate, loading,
                 dataFetches, signalFetches, strategyVars, budgetVars,
                 effectDeps>>
  /\ Render

NextArbiter ==
  \/ \E v \in AllVerdicts :
       /\ root = "CommodityDashboard"
       /\ signalDisplayProps(v, tradingSignal, signalLoading)
  \/ \E sig \in {None} \cup { Some(x) : x \in AllSignals } :
       signalDisplayProps(binarySignals, sig, signalLoading)
  \/ \E ld \in BOOLEAN :
       signalDisplayProps(binarySignals, tradingSignal, ld)

SpecArbiter == InitArbiter /\ [][NextArbiter]_vars

\* ---------------------------------------- StrategyDashboard on its own
\* A store with one record per day: records that pass and that sit exactly
\* on the initial and the typed thresholds, the record of the end-to-end
\* example, a record of zeros, and records with absent index values.
ClassifierRecords ==
  << <<Some(97), Some(3), Some(3)>>,
     <<Some(95), Some(5), Some(5)>>,
     <<Some(95), Some(3), Some(3)>>,
     <<Some(3), Some(97), Some(97)>>,
     <<Some(5), Some(95), Some(95)>>,
     <<Some(3), Some(95), Some(97)>>,
     <<Some(90), Some(3), Some(7)>>,
     <<Some(0), Some(0), Some(0)>>,
     <<Some(85), Some(10), Some(90)>>,
     <<None, Some(3), Some(3)>>,
     <<Some(3), None, Some(97)>>,
     <<Some(97), Some(3), None>>,
     <<None, None, None>> >>

ClassifierStore ==
  [ d \in 1..Len(ClassifierRecords) |->
      [time |-> parseISO(d), ci |-> ClassifierRecords[d][1],
       li |-> ClassifierRecords[d][2], si |-> ClassifierRecords[d][3]] ]

InitClassifier ==
  /\ root = "CommodityDashboard"
  /\ commodityKey = "gold"
  /\ binarySignals = NoVerdicts
  /\ \E d \in 1..Len(ClassifierStore) :
       Settled(ClassifierStore, Some(d), None, FALSE)
  /\ actionsLeft = MaxActions
  /\ Rendered

NextClassifier == StrategyNext(ThresholdEntries)

SpecClassifier == InitClassifier /\ [][NextClassifier]_vars

\* ------------------------------------------------ the end-to-end example
ExampleRecord ==
  [time |-> parseISO(1), ci |-> Some(90), li |-> Some(3), si |-> Some(7)]

ExampleSignal == Signal(1, "down", "bullish", 4, "sell")

\* A gold dashboard settled on the example's record and signal.
InitExample ==
  /\ root = "CommodityDashboard"
  /\ commodityKey = "gold"
  /\ binarySignals = NoVerdicts
  /\ Settled(<<ExampleRecord>>, Some(1), Some(ExampleSignal), FALSE)
  /\ actionsLeft = ExampleActions
  /\ Rendered

SpecExample == InitExample /\ [][NextClassifier]_vars

\* ------------------------------------- a session with a signal on display
\* Signals on which price and sentiment agree, and one on which they do not.
SessionSignals ==
  { Signal(1, "down", "bearish", 3, "sell"),
    Signal(1, "up", "bullish", 2, "buy"),
    ExampleSignal }

\* A gold dashboard settled on the example's record and one of the signals.
InitSession ==
  /\ root = "CommodityDashboard"
  /\ commodityKey = "gold"
  /\ binarySignals = NoVerdicts
  /\ \E sig \in SessionSignals :
       Settled(<<ExampleRecord>>, Some(1), Some(sig), FALSE)
  /\ actionsLeft = MaxActions
  /\ Rendered

SpecSession == InitSession /\ [][NextClassifier]_vars

\* ------------------------------------------- manual threshold entries
\* Entries typed into a threshold input: nothing, letters, a lone sign,
\* numbers outside [0, 100], zero, and a number inside.
InputEntries ==
  { <<>>, <<"a", "b", "c">>, <<"-">>, <<"1", "5", "0">>, <<"-", "5">>,
    <<"0">>, <<"4", "2">>, <<"8", ".", "5">>, <<"1", "e", "3">>,
    <<"5", "e", "-", "1">>, <<".", "5">>, <<" ", "4", "2">>, <<"+", "7">>,
    <<"2", "e", "1", "x">>, InfinityWord, <<"-">> \o InfinityWord,
    <<"1", "e", "9", "9", "9">> }

NextThresholdInput == StrategyNext(InputEntries)

\* The StrategyDashboard of the example's dashboard, typed into.
InitThresholdInput ==
  /\ root = "CommodityDashboard"
  /\ commodityKey = "gold"
  /\ binarySignals = NoVerdicts
  /\ Settled(<<ExampleRecord>>, Some(1), Some(ExampleSignal), FALSE)
  /\ actionsLeft = InputActions
  /\ Rendered

SpecThresholdInput == InitThresholdInput /\ [][NextThresholdInput]_vars

\* --------------------------------------- registry defaults in force
\* Index values below, between and above the thresholds of the registry.
RegistryValues == {3, 7, 50, 92, 97}

\* A dashboard of a commodity of the registry, settled on one record, whose
\* ThresholdSets are the registry's defaults of the commodity.
InitRegistry ==
  /\ root = "CommodityDashboard"
  /\ commodityKey \in DOMAIN OPTIMAL_THRESHOLDS
  /\ binarySignals = NoVerdicts
  /\ \E c \in RegistryValues, l \in RegistryValues, s \in RegistryValues :
       commodityData = <<[time |-> parseISO(1), ci |-> Some(c),
                          li |-> Some(l), si |-> Some(s)]>>
  /\ selectedDate = Some(1)
  /\ tradingSignal = None
  /\ loading = FALSE
  /\ signalLoading = FALSE
  /\ dataFetches = <<>>
  /\ signalFetches = <<>>
  /\ effectDeps = currentDeps
  /\ strategy = "long"
  /\ indexEnabled = InitIndexEnabled
  /\ longThresholds = Numbers(getOptimalThresholds(commodityKey)[1].long)
  /\ shortThresholds = Numbers(getOptimalThresholds(commodityKey)[1].short)
  /\ actionsLeft = MaxActions
  /\ navLeft = 0
  /\ Rendered

\* The user switches the posture and toggles indices.
NextRegistry ==
  \/ \E s \in Strategies : setStrategy(s)
  \/ \E i \in Indices : handleIndexToggle(i)

SpecRegistry == InitRegistry /\ [][NextRegistry]_vars

\* ------------------------------------------- the resolver on its own
Times == 0..(MaxDay * TicksPerDay + TicksPerDay - 1)

\* The store whose records carry the given times.
StoreOf(ts) ==
  [ i \in DOMAIN ts |->
      [time |-> ts[i], ci |-> Some(50), li |-> Some(50), si |-> Some(50)] ]

\* The ascending sequences of n times.
AscendingTimes(n) ==
  { t \in [1..n -> Times] :
      \A i \in 1..n, j \in 1..n : i < j => t[i] <= t[j] }

\* Every store of up to MaxLen records in ascending order of time.
AscendingStores ==
  UNION { { StoreOf(ts) : ts \in AscendingTimes(n) } : n \in 0..MaxLen }

InitResolver ==
  /\ root = "CommodityDashboard"
  /\ commodityKey = "gold"
  /\ binarySignals = NoVerdicts
  /\ \E data \in AscendingStores,
        d \in {None} \cup { Some(x) : x \in 0..MaxDay } :
       Settled(data, d, None, FALSE)
  /\ actionsLeft = 0
  /\ Rendered

\* The parent re-renders StrategyDashboard with another selectedDate.
selectedDateProp(day) ==
  /\ selectedDate' = Some(day)
  /\ effectDeps' = [effectDeps EXCEPT !.selectedDate = Some(day)]
  /\ UNCHANGED <<root, commodityKey, commodityData, tradingSignal, loading,
                 signalLoading, binarySignals, dataFetches, signalFetches,
                 strategyVars, budgetVars>>
  /\ Render

NextResolver == \E d \in 0..MaxDay : selectedDateProp(d)

SpecResolver == InitResolver /\ [][NextResolver]_vars

\* ================================================================ claims
\* The Decision Arbiter's ordered rule list as the specification words it:
\* rules 1 to 3, otherwise hold.
ArbiterRules(long, short, nf) ==
  IF long = "true" /\ short = "true" THEN "buy"
  ELSE IF nf /\ long = "true" THEN "buy"
  ELSE IF nf /\ short = "true" THEN "sell"
  ELSE "hold"

\* SignalDisplay shows a decision: it is on screen, has a signal and is not
\* loading.
ShowsDecision ==
  /\ ~loading /\ ~renderThrows(selectedDate)
  /\ ~signalLoading /\ tradingSignal # None

AllEnabled == \A i \in Indices : indexEnabled[i]

AllPresent ==
  selectedDateData # None /\ \A i \in Indices : indexValues[i] # None

\* The comparison of index i for a posture, on the resolved record and the
\* current ThresholdSets, as section 4.2 words it.
Comparison(strat, i) ==
  LET v == indexValues[i][1]
      th == IF strat = "long" THEN longThresholds[i] ELSE shortThresholds[i]
      isAbove == (strat = "long") <=> (i = "commercials")
  IN  IF isAbove THEN numLess(th, Number(v)) ELSE numLess(Number(v), th)

\* The verdict of a posture in the current state.
Verdict(strat) ==
  binarySignalOf(selectedDateData, strat, indexEnabled, longThresholds,
                 shortThresholds)

\* C1: with a BinaryVerdict passed to it, the decision SignalDisplay shows is
\* the ordered rule list's: buy if long and short are both true, else buy if
\* news failure and long, else sell if news failure and short, else hold;
\* (true, true, no failure) shows buy and (true, false, no failure) hold.
C1_ArbiterRuleList ==
  (root = "CommodityDashboard" /\ ShowsDecision) =>
    LET nf == newsFailure(tradingSignal[1]) IN
    /\ shownDecision =
         ArbiterRules(binarySignals.long, binarySignals.short, nf)
    /\ (binarySignals = [long |-> "true", short |-> "true"] /\ ~nf
          => shownDecision = "buy")
    /\ (binarySignals = [long |-> "true", short |-> "false"] /\ ~nf
          => shownDecision = "hold")

C1_Witness ==
  /\ root = "CommodityDashboard" /\ ShowsDecision
  /\ binarySignals = [long |-> "true", short |-> "true"]
  /\ ~newsFailure(tradingSignal[1])
  /\ shownDecision = "buy"

\* newsFailure as section 4.3 words it.
ClaimedNewsFailure(s) ==
  \/ (s.price_direction = "up" /\ s.news_sentiment = "bearish")
  \/ (s.price_direction = "down" /\ s.news_sentiment = "bullish")
  \/ s.price_direction = "neutral"
  \/ s.news_count = 0

\* C2: newsFailure is true exactly for up+bearish, down+bullish, a neutral
\* price direction or no news article; no article forces it, and up or down
\* with a neutral sentiment and articles is no failure.  It shows in the
\* decision: under (long true, short false) buy is shown exactly then.
C2_NewsFailure ==
  tradingSignal # None =>
    LET s == tradingSignal[1] IN
    /\ newsFailure(s) <=> ClaimedNewsFailure(s)
    /\ (s.news_count = 0 => newsFailure(s))
    /\ (s.price_direction \in {"up", "down"} /\ s.news_sentiment = "neutral"
          /\ s.news_count > 0 => ~newsFailure(s))
    /\ (root = "CommodityDashboard" /\ ShowsDecision
          /\ binarySignals = [long |-> "true", short |-> "false"]
          => (shownDecision = "buy" <=> ClaimedNewsFailure(s)))

C2_Witness ==
  /\ root = "CommodityDashboard" /\ ShowsDecision
  /\ tradingSignal[1].price_direction = "up"
  /\ tradingSignal[1].news_sentiment = "bullish"
  /\ tradingSignal[1].news_count = 0
  /\ binarySignals = [long |-> "true", short |-> "false"]
  /\ shownDecision = "buy"

\* C3: with all three index values present and all three indices enabled the
\* long verdict is true exactly when commercials > threshold and both
\* speculator indices < threshold, the short verdict exactly when the three
\* comparisons are reversed; a value equal to its threshold fails.
C3_StrictComparisons ==
  (AllPresent /\ AllEnabled) =>
    /\ \A st \in Strategies :
         /\ Verdict(st) = Bool3(\A i \in Indices : Comparison(st, i))
         /\ (\E i \in Indices :
               Number(indexValues[i][1]) =
                 (IF st = "long" THEN longThresholds[i]
                  ELSE shortThresholds[i]))
              => Verdict(st) = "false"
    /\ shownBinary = Bool3(\A i \in Indices : Comparison(strategy, i))

C3_Witness ==
  /\ AllPresent /\ AllEnabled /\ strategy = "long"
  /\ Number(indexValues.commercials[1]) = longThresholds.commercials
  /\ numLess(Number(indexValues.largeSpeculators[1]),
             longThresholds.largeSpeculators)
  /\ numLess(Number(indexValues.smallSpeculators[1]),
             longThresholds.smallSpeculators)
  /\ shownBinary = "false"

\* C4: for a resolved record the verdict is unknown exactly when one of its
\* three index values is absent, whatever the thresholds and the mask: an
\* absent value of a disabled index forces unknown, a value of 0 does not.
C4_UnknownIffAbsent ==
  selectedDateData # None =>
    /\ shownBinary = "null" <=> \E i \in Indices : indexValues[i] = None
    /\ \A st \in Strategies :
         Verdict(st) = "null" <=> \E i \in Indices : indexValues[i] = None

C4_Witness ==
  /\ selectedDateData # None
  /\ \E i \in Indices : indexValues[i] = None /\ ~indexEnabled[i]
  /\ \A i \in Indices : indexValues[i] = None => ~indexEnabled[i]
  /\ shownBinary = "null"

\* C5: with all three index values present the verdict is the conjunction of
\* the comparisons of the enabled indices only; and disabling an index never
\* turns an unknown verdict into a boolean one.
C5_DisabledPasses ==
  /\ AllPresent =>
       /\ \A st \in Strategies :
            Verdict(st) =
              Bool3(\A i \in Indices : indexEnabled[i] => Comparison(st, i))
       /\ shownBinary =
            Bool3(\A i \in Indices : indexEnabled[i] => Comparison(strategy, i))
  /\ (selectedDateData # None /\ shownBinary = "null") =>
       \A i \in Indices :
         renderBinary(loading, commodityData, selectedDate, strategy,
                      [indexEnabled EXCEPT ![i] = FALSE], longThresholds,
                      shortThresholds) = "null"

C5_Witness ==
  /\ AllPresent
  /\ ~indexEnabled.smallSpeculators
  /\ ~Comparison(strategy, "smallSpeculators")
  /\ shownBinary = "true"

\* The record the resolver returns for the selected date, as an index.
Resolved == closestIdx(commodityData, selectedDate)

\* The calendar day of the i-th record of the store.
DateOf(i) == formatDay(commodityData[i].time)

\* Every record of the store carries the midnight of its day as timestamp.
AllAtMidnight ==
  \A i \in 1..Len(commodityData) :
    commodityData[i].time = parseISO(DateOf(i))

\* The dates of the store ascend and no date repeats.
AscendingDates ==
  \A i \in 1..Len(commodityData), j \in 1..Len(commodityData) :
    i < j => DateOf(i) < DateOf(j)

\* The resolver returns one record of the store, no record's date is
\* strictly closer to the target date, of two records whose dates are
\* equidistant the earlier-dated one is returned, and a record whose date is
\* the target is returned.
NearestByDate ==
  LET dist(j) == Abs(DateOf(j) - selectedDate[1])
  IN  /\ Resolved \in 1..Len(commodityData)
      /\ selectedDateData = Some(commodityData[Resolved])
      /\ \A j \in 1..Len(commodityData) :
           /\ dist(j) >= dist(Resolved)
           /\ dist(j) = dist(Resolved) => DateOf(Resolved) <= DateOf(j)
           /\ DateOf(j) = selectedDate[1] =>
                DateOf(Resolved) = selectedDate[1]

C7_VerdictsFollowClassifier ==
  (root = "CommodityDashboard" /\ ~loading) =>
    binarySignals = [long |-> Verdict("long"), short |-> Verdict("short")]

\* C8 (as amended): the decision shown for a signal is the Arbiter's whenever
\* a BinaryVerdict is passed to SignalDisplay, also when both its verdicts
\* are unknown; it is the upstream baseline only when none is passed.
C8_ArbiterUnlessNoVerdicts ==
  ShowsDecision =>
    shownDecision =
      IF binarySignalsProp = None THEN baselineSignal(tradingSignal)
      ELSE ArbiterRules(binarySignals.long, binarySignals.short,
                        newsFailure(tradingSignal[1]))

C8_Witness ==
  /\ root = "CommodityDashboard" /\ ShowsDecision
  /\ binarySignals = NoVerdicts
  /\ baselineSignal(tradingSignal) = "buy"
  /\ shownDecision = "hold"

\* C8 (as claimed): the decision shown is the Arbiter's if a BinaryVerdict is
\* available and the upstream baseline when none can be computed, as when
\* both verdicts are unknown.
C8_BaselineWhenUnknown ==
  ShowsDecision =>
    shownDecision =
      IF binarySignalsProp = None \/ binarySignals = NoVerdicts
      THEN baselineSignal(tradingSignal)
      ELSE ArbiterRules(binarySignals.long, binarySignals.short,
                        newsFailure(tradingSignal[1]))

\* An unknown verdict read as false.
Known(v) == IF v = "null" THEN "false" ELSE v

\* C9: replacing unknown by false in the long verdict, the short verdict or
\* both never changes the decision shown; (unknown, true, news failure)
\* shows sell.
C9_UnknownIsNotTrue ==
  (root = "CommodityDashboard" /\ ShowsDecision) =>
    /\ \A l \in {binarySignals.long, Known(binarySignals.long)},
          sh \in {binarySignals.short, Known(binarySignals.short)} :
         displaySignal(Some([long |-> l, short |-> sh]), tradingSignal)
           = shownDecision
    /\ (binarySignals = [long |-> "null", short |-> "true"]
          /\ newsFailure(tradingSignal[1]) => shownDecision = "sell")

C9_Witness ==
  /\ root = "CommodityDashboard" /\ ShowsDecision
  /\ binarySignals = [long |-> "null", short |-> "true"]
  /\ newsFailure(tradingSignal[1])
  /\ shownDecision = "sell"

\* C10: with the gold thresholds, all indices enabled, the record
\* {90, 3, 7} and the signal {down, bullish, 4 articles} the long verdict is
\* true, the short verdict false, newsFailure true and the decision buy.
C10_EndToEndExample ==
  ( /\ longThresholds = Numbers(OPTIMAL_THRESHOLDS.gold.long)
    /\ shortThresholds = Numbers(OPTIMAL_THRESHOLDS.gold.short)
    /\ AllEnabled
    /\ selectedDateData = Some(ExampleRecord)
    /\ tradingSignal = Some(ExampleSignal)
    /\ ShowsDecision ) =>
    /\ Verdict("long") = "true"
    /\ Verdict("short") = "false"
    /\ newsFailure(tradingSignal[1])
    /\ shownDecision = "buy"

\* The inputs of the decision: the resolved record, the two ThresholdSets,
\* the IndexEnablement mask and the ExternalSignal.
DecisionInputs ==
  <<selectedDateData, longThresholds, shortThresholds, indexEnabled,
    tradingSignal>>

\* The decision the dashboard's wiring yields for a tuple of inputs: under
\* App the signal's baseline, under CommodityDashboard the arbiter's on the
\* verdicts it is passed, which no input changes.
DecisionOf(rootKind, rec, lt, st, en, signal) ==
  IF rootKind = "App" THEN baselineSignal(signal)
  ELSE ArbiterRules(NoVerdicts.long, NoVerdicts.short,
                    newsFailure(signal[1]))

\* C11: the decision shown is a function of (record, thresholds, enablement,
\* externalSignal) alone, so two runs holding the same tuple show the same
\* decision whatever inputs each has seen before; and a step that leaves the
\* tuple unchanged leaves the decision shown unchanged.
C11_Deterministic ==
  /\ [](ShowsDecision =>
          shownDecision = DecisionOf(root, selectedDateData, longThresholds,
                                     shortThresholds, indexEnabled,
                                     tradingSignal))
  /\ [][(ShowsDecision /\ ShowsDecision' /\ DecisionInputs' = DecisionInputs)
          => shownDecision' = shownDecision]_vars

\* A decision shown for a signal of another date than the selected one,
\* after the session has used up its selections and actions.
C11_Witness ==
  /\ Idle
  /\ ShowsDecision
  /\ root = "App"
  /\ navLeft = 0 /\ actionsLeft = 0
  /\ selectedDate # None
  /\ tradingSignal[1].date # selectedDate[1]
  /\ shownDecision = "sell"

\* C12: after a data load the Time-Series Store holds its records in
\* ascending order of date and no two of its records carry the same date,
\* whatever rows the data endpoint returned.
C12_SortedNoDuplicates ==
  \A i \in 1..Len(commodityData), j \in 1..Len(commodityData) :
    i < j => formatDay(commodityData[i].time) < formatDay(commodityData[j].time)

\* C13: on an empty Time-Series Store the resolver yields no record for any
\* target date, and the verdict of either posture, as the one the
\* StrategyDashboard holds, is the unknown state, never a boolean.
C13_NoDataOnEmptyStore ==
  (~loading /\ Len(commodityData) = 0) =>
    /\ \A d \in 0..(MaxDay + 1) :
         selectedDateDataOf(commodityData, Some(d)) = None
    /\ selectedDateData = None
    /\ \A st \in Strategies : Verdict(st) = "null"
    /\ shownBinary = "null"

\* An empty store loaded while a date selected on an earlier store remains.
C13_Witness ==
  /\ ~loading /\ Len(commodityData) = 0
  /\ selectedDate # None
  /\ shownBinary = "null"

\* A step in which a signal fetch fails.
SignalFetchFails == \E i \in 1..Len(signalFetches) : fetchTradingSignalFail(i)

\* C14 (as amended): after a signal fetch fails no ExternalSignal is held,
\* the one held before is discarded, and no buy/sell/hold decision is shown;
\* the display is "no signal available", unless a data load is in progress,
\* when the dashboard shows its data-loading screen in place of its children.
C14_FailureLeavesNoSignal ==
  [][SignalFetchFails =>
       /\ tradingSignal' = None
       /\ shownDecision' \notin Decisions
       /\ shownDecision' = IF loading' THEN "unmounted" ELSE "no-signal"]_vars

\* Every signal fetch has settled, the last of them by failing.
C14_Witness ==
  /\ Idle
  /\ ~loading
  /\ selectedDate # None
  /\ signalFetches = <<>>
  /\ navLeft = 0
  /\ tradingSignal = None
  /\ shownDecision = "no-signal"

\* C14 (as claimed): after a signal fetch fails no ExternalSignal is held, no
\* decision is shown and the display is "no signal available".
C14_FailureShowsNoSignal ==
  [][SignalFetchFails =>
       /\ tradingSignal' = None
       /\ shownDecision' \notin Decisions
       /\ shownDecision' = "no-signal"]_vars

\* C15: a signal fetch is started only by the effects of a render in which
\* the selected date or the commodity key has changed, and it asks for that
\* commodity and date; effects become pending only by a step that changes
\* the date or the key; any other step leaves the fetches in flight alone or
\* settles one of them, and a step in which a fetch fails settles it without
\* issuing another.
C15_NoRetry ==
  [][/\ \/ signalFetches' = signalFetches
        \/ \E i \in 1..Len(signalFetches) :
             signalFetches' = RemoveAt(signalFetches, i)
        \/ /\ EffectsPending
           /\ selectedDate # effectDeps.selectedDate
                \/ commodityKey # effectDeps.commodityKey
           /\ selectedDate # None
           /\ signalFetches' =
                Append(signalFetches, [commodity |-> commodityKey,
                                       date |-> selectedDate[1]])
     /\ (~EffectsPending /\ EffectsPending') =>
          (selectedDate' # selectedDate \/ commodityKey' # commodityKey)
     /\ SignalFetchFails =>
          /\ Len(signalFetches') = Len(signalFetches) - 1
          /\ ~signalLoading']_vars

\* A failed fetch behind, nothing in flight, and the session can still
\* select a date or change the commodity.
C15_Witness ==
  /\ Idle
  /\ ~loading /\ dataFetches = <<>>
  /\ selectedDate # None
  /\ tradingSignal = None
  /\ signalFetches = <<>> /\ ~signalLoading
  /\ navLeft > 0

\* The known range of dates: the days of the first and of the last record.
MinDate == formatDay(commodityData[1].time)

MaxDate == formatDay(commodityData[Len(commodityData)].time)

\* C16: a date entered outside [min record date, max record date] leaves the
\* selected date, the resolved record's verdict and the fetches in flight
\* unchanged; a date entered inside the range, bounds included, becomes the
\* selected date; and with a non-empty store the selected date is always
\* inside the range.
C16_DateRange ==
  /\ [][\A d \in 0..(MaxDay + 1) \cup FarDays :
          handleDateInputChange(d) =>
            IF d >= MinDate /\ d <= MaxDate
            THEN selectedDate' = Some(d)
            ELSE UNCHANGED <<selectedDate, shownBinary, signalFetches,
                             signalLoading>>]_vars
  /\ []((~loading /\ Len(commodityData) > 0) =>
          /\ selectedDate # None
          /\ selectedDate[1] >= MinDate
          /\ selectedDate[1] <= MaxDate)

\* The number each entry of InputEntries stands for, None when it is not a
\* number.
EntryNumber(v) ==
  CASE v = <<"1", "5", "0">> -> Some([m |-> 15, e |-> 1, inf |-> FALSE])
    [] v = <<"-", "5">> -> Some([m |-> 0 - 5, e |-> 0, inf |-> FALSE])
    [] v = <<"0">> -> Some([m |-> 0, e |-> 0, inf |-> FALSE])
    [] v = <<"4", "2">> -> Some([m |-> 42, e |-> 0, inf |-> FALSE])
    [] v = <<"8", ".", "5">> -> Some([m |-> 85, e |-> 0 - 1, inf |-> FALSE])
    [] v = <<"1", "e", "3">> -> Some([m |-> 1, e |-> 3, inf |-> FALSE])
    [] v = <<"5", "e", "-", "1">> ->
         Some([m |-> 5, e |-> 0 - 1, inf |-> FALSE])
    [] v = <<".", "5">> -> Some([m |-> 5, e |-> 0 - 1, inf |-> FALSE])
    [] v = <<" ", "4", "2">> -> Some([m |-> 42, e |-> 0, inf |-> FALSE])
    [] v = <<"+", "7">> -> Some([m |-> 7, e |-> 0, inf |-> FALSE])
    [] v = <<"2", "e", "1", "x">> -> Some([m |-> 2, e |-> 1, inf |-> FALSE])
    [] v = InfinityWord -> Some([m |-> 1, e |-> 0, inf |-> TRUE])
    [] v = <<"-">> \o InfinityWord ->
         Some([m |-> 0 - 1, e |-> 0, inf |-> TRUE])
    [] v = <<"1", "e", "9", "9", "9">> ->
         Some([m |-> 1, e |-> 0, inf |-> TRUE])
    [] OTHER -> None

\* C17: a manual entry sets the addressed threshold of the addressed posture
\* to the entry's number, unclamped, and to 0 when the entry is empty or not
\* a number; nothing else of the two ThresholdSets changes.
C17_ThresholdCoercion ==
  [][\A t \in Strategies, i \in Indices, v \in InputEntries :
       handleThresholdChange(t, i, v) =>
         LET n == IF EntryNumber(v) = None THEN Number(0)
                  ELSE EntryNumber(v)[1]
             edited == IF t = "long" THEN longThresholds ELSE shortThresholds
         IN  /\ (IF t = "long" THEN longThresholds' ELSE shortThresholds')
                  = [edited EXCEPT ![i] = n]
             /\ (IF t = "long" THEN shortThresholds' = shortThresholds
                               ELSE longThresholds' = longThresholds)]_vars

\* A threshold above 100 and one that is no integer side by side.
C17_Witness ==
  /\ longThresholds.commercials = Number(150)
  /\ longThresholds.largeSpeculators = [m |-> 85, e |-> 0 - 1, inf |-> FALSE]
  /\ actionsLeft = 0

\* C18: as long as the user has not acted on the StrategyDashboard in the
\* session, from its first state on and across commodity changes, the long
\* and the short ThresholdSet are the Threshold Registry's defaults of the
\* current commodity.
C18_RegistryDefaults ==
  (actionsLeft = MainActions /\ ~loading) =>
    /\ longThresholds = Numbers(OPTIMAL_THRESHOLDS[commodityKey].long)
    /\ shortThresholds = Numbers(OPTIMAL_THRESHOLDS[commodityKey].short)

\* C19: the long ThresholdSet, the short ThresholdSet and the
\* IndexEnablement mask change only in a step that is a toggle or a manual
\* threshold edit of the user; a date selection, a data load, a signal
\* arriving or failing and a posture switch leave the three unchanged.
C19_SessionStateFrame ==
  [][<<longThresholds, shortThresholds, indexEnabled>>'
       # <<longThresholds, shortThresholds, indexEnabled>>
     => \/ \E i \in Indices : handleIndexToggle(i)
        \/ \E s \in Strategies, i \in Indices, v \in MainEntries :
             handleThresholdChange(s, i, v)]_vars

\* Rules 1 to 4 of the Decision Arbiter followed directly by hold.
RulesOneToFour(long, short, nf) ==
  IF long = "true" /\ short = "true" THEN "buy"
  ELSE IF nf /\ long = "true" THEN "buy"
  ELSE IF nf /\ short = "true" THEN "sell"
  ELSE IF ~nf THEN "hold"
  ELSE "hold"

\* C20: for every verdict pair and signal the decision shown is the one of
\* rules 1 to 4 followed by hold, the default after rule 5 never yields the
\* decision, and a hold is never justified by "Unable to determine signal".
C20_RuleFiveRedundant ==
  ShowsDecision =>
    /\ displayRule(binarySignalsProp, tradingSignal) # "default"
    /\ root = "CommodityDashboard" =>
         shownDecision =
           RulesOneToFour(binarySignals.long, binarySignals.short,
                          newsFailure(tradingSignal[1]))
    /\ signalReason(binarySignalsProp, tradingSignal, shownDecision)
         # "hold-unable"

\* Rule 5 yields the decision: news failure and neither verdict true.
C20_Witness ==
  /\ root = "CommodityDashboard" /\ ShowsDecision
  /\ binarySignals = [long |-> "false", short |-> "null"]
  /\ displayRule(binarySignalsProp, tradingSignal) = "rule5"
  /\ signalReason(binarySignalsProp, tradingSignal, shownDecision)
       = "hold-no-binary"

\* C21: once no signal fetch is in flight, an ExternalSignal that is held is
\* the response to the fetch issued for the currently selected date, never
\* that of a fetch issued for an earlier selection that completed later.
C21_NoStaleSignal ==
  (Idle /\ signalFetches = <<>> /\ selectedDate # None
     /\ tradingSignal # None) =>
    tradingSignal[1].date = selectedDate[1]

\* C22: the signal-loading flag is true in every state with a signal fetch in
\* flight, and no decision is shown while the fetch for the current
\* selection is in flight.
C22_LoadingWhileInFlight ==
  /\ Len(signalFetches) > 0 => signalLoading
  /\ (selectedDate # None
        /\ \E i \in 1..Len(signalFetches) :
             signalFetches[i] = [commodity |-> commodityKey,
                                 date |-> selectedDate[1]])
       => shownDecision \notin Decisions

\* C23: the justification shown with a decision is true of its inputs: with
\* the buy text newsFailure and the long verdict are true, with the sell
\* text newsFailure and the short verdict are true, with the hold text
\* "No news failure" newsFailure is false.
C23_JustificationIsTrue ==
  ShowsDecision =>
    LET reason ==
          signalReason(binarySignalsProp, tradingSignal, shownDecision)
        nf == newsFailure(tradingSignal[1])
    IN  /\ reason = "buy-long-active" =>
             nf /\ binarySignalsProp # None /\ binarySignals.long = "true"
        /\ reason = "sell-short-active" =>
             nf /\ binarySignalsProp # None /\ binarySignals.short = "true"
        /\ reason = "hold-no-news-failure" => ~nf

\* C24: every entry of the Threshold Registry has long.commercials above
\* short.commercials and both long speculator thresholds below the short
\* ones; and with the thresholds of an entry in force, all values present
\* and at least one index enabled, the long and the short verdict are never
\* both true.
C24_RegistryOrdering ==
  /\ \A k \in DOMAIN OPTIMAL_THRESHOLDS :
       /\ OPTIMAL_THRESHOLDS[k].long.commercials
            > OPTIMAL_THRESHOLDS[k].short.commercials
       /\ OPTIMAL_THRESHOLDS[k].long.largeSpeculators
            < OPTIMAL_THRESHOLDS[k].short.largeSpeculators
       /\ OPTIMAL_THRESHOLDS[k].long.smallSpeculators
            < OPTIMAL_THRESHOLDS[k].short.smallSpeculators
  /\ ( /\ longThresholds = Numbers(OPTIMAL_THRESHOLDS[commodityKey].long)
       /\ shortThresholds = Numbers(OPTIMAL_THRESHOLDS[commodityKey].short)
       /\ AllPresent
       /\ \E i \in Indices : indexEnabled[i] )
     => ~(Verdict("long") = "true" /\ Verdict("short") = "true")

\* Only the small speculators index is enabled, its value passes the long
\* comparison, and the short posture is the active one.
C24_Witness ==
  /\ longThresholds = Numbers(OPTIMAL_THRESHOLDS[commodityKey].long)
  /\ shortThresholds = Numbers(OPTIMAL_THRESHOLDS[commodityKey].short)
  /\ commodityKey = "silver"
  /\ indexEnabled = [commercials |-> FALSE, largeSpeculators |-> FALSE,
                     smallSpeculators |-> TRUE]
  /\ Verdict("long") = "true"
  /\ strategy = "short" /\ shownBinary = "false"

\* C25: with all three indices disabled and all three index values present
\* the long and the short verdict are both true whatever the ThresholdSets,
\* and the decision shown is buy for every signal, also one whose price and
\* sentiment agree on down and bearish.
C25_AllDisabledBuys ==
  ( /\ \A i \in Indices : ~indexEnabled[i]
    /\ AllPresent
    /\ ShowsDecision ) =>
    /\ Verdict("long") = "true"
    /\ Verdict("short") = "true"
    /\ shownDecision = "buy"

\* C26: on a record with all index values present, a toggle that disables an
\* index never turns a true verdict of either posture into false, and a
\* toggle that enables one never turns a false verdict into true; the same
\* holds for the verdict the StrategyDashboard shows.
C26_DisablingMonotone ==
  [][\A i \in Indices :
       (handleIndexToggle(i) /\ AllPresent) =>
         /\ \A st \in Strategies :
              IF indexEnabled[i]
              THEN Verdict(st) = "true" => Verdict(st)' = "true"
              ELSE Verdict(st) = "false" => Verdict(st)' = "false"
         /\ IF indexEnabled[i]
            THEN shownBinary = "true" => shownBinary' = "true"
            ELSE shownBinary = "false" => shownBinary' = "false"]_vars

\* The commercials index alone is disabled, its comparison fails and the
\* verdict shown is true.
C26_Witness ==
  /\ AllPresent
  /\ indexEnabled = [commercials |-> FALSE, largeSpeculators |-> TRUE,
                     smallSpeculators |-> TRUE]
  /\ ~Comparison(strategy, "commercials")
  /\ shownBinary = "true"

\* C27: a threshold edit for (posture, index) leaves the other two indices
\* of that posture's ThresholdSet, the other posture's ThresholdSet, the mask
\* and the active posture unchanged; a toggle flips the addressed index of
\* the mask and no other, leaves both ThresholdSets and the posture
\* unchanged, and toggling the resulting mask again gives the mask back.
C27_EditAndToggleFrame ==
  [][/\ \A t \in Strategies, i \in Indices, v \in ThresholdEntries :
          handleThresholdChange(t, i, v) =>
            /\ \A j \in Indices \ {i} :
                 /\ longThresholds'[j] = longThresholds[j]
                 /\ shortThresholds'[j] = shortThresholds[j]
            /\ IF t = "long" THEN shortThresholds' = shortThresholds
                             ELSE longThresholds' = longThresholds
            /\ UNCHANGED <<indexEnabled, strategy>>
     /\ \A i \in Indices :
          handleIndexToggle(i) =>
            /\ indexEnabled'[i] = ~indexEnabled[i]
            /\ \A j \in Indices \ {i} : indexEnabled'[j] = indexEnabled[j]
            /\ [indexEnabled' EXCEPT ![i] = ~indexEnabled'[i]] = indexEnabled
            /\ UNCHANGED <<longThresholds, shortThresholds, strategy>>]_vars

\* The posture switched to short, one of its thresholds edited and one
\* index toggled off.
C27_Witness ==
  /\ strategy = "short"
  /\ longThresholds = InitLongThresholds
  /\ shortThresholds =
       [InitShortThresholds EXCEPT !.largeSpeculators = Number(90)]
  /\ indexEnabled = [InitIndexEnabled EXCEPT !.smallSpeculators = FALSE]
  /\ actionsLeft = 0

\* The times of the dated rows of a response, and the day of the latest.
DatedTimes(rows) ==
  { rows[k].time[1] : k \in { x \in 1..Len(rows) : rows[x].time # None } }

LatestDay(rows) ==
  formatDay(CHOOSE m \in DatedTimes(rows) : \A x \in DatedTimes(rows) : x <= m)

\* The signal fetch for the commodity and the date selected.
FetchForSelection ==
  [commodity |-> commodityKey, date |-> selectedDate[1]]

\* What every data load leaves behind whatever it returned: the loading flag
\* is false, and the selected date is the day of the latest dated row, or
\* is left as it was when the load failed or returned no dated row, in which
\* case no effect is pending and no signal fetch is issued either.  Pending
\* effects run next, and with a date selected they issue the signal fetch
\* for the selection.
LoadOutcome(effectsAfterDatedLoad) ==
  /\ \A i \in 1..Len(dataFetches), rows \in DataResponses :
       fetchCommodityDataOk(i, rows) =>
         /\ ~loading'
         /\ signalFetches' = signalFetches
         /\ IF DatedTimes(rows) # {}
            THEN /\ selectedDate' = Some(LatestDay(rows))
                 /\ effectsAfterDatedLoad
            ELSE selectedDate' = selectedDate /\ ~EffectsPending'
  /\ \A i \in 1..Len(dataFetches) :
       fetchCommodityDataFail(i) =>
         /\ ~loading' /\ ~EffectsPending'
         /\ UNCHANGED <<selectedDate, signalFetches>>
  /\ (EffectsPending /\ selectedDate # None) =>
       signalFetches' = Append(signalFetches, FetchForSelection)

\* C28 (as amended): after a load with a dated row the selected date is the
\* date of the latest record, and a signal fetch for it is issued next, by
\* the effects of the render, if that changes the selected date; if that
\* date was selected already no fetch is issued.  After a load that fails or
\* has no dated row the selected date is left as it was, and the loading
\* flag is false.
C28_LoadSelectsLatest ==
  [][LoadOutcome(EffectsPending' <=> selectedDate' # selectedDate)]_vars

\* The unordered response is loaded: its latest date is selected and the
\* signal fetch for it is in flight.
C28_Witness ==
  /\ ~loading
  /\ Len(commodityData) = 3
  /\ commodityData[1].time = parseISO(1)
  /\ commodityData[2].time = parseISO(3)
  /\ commodityData[3].time = parseISO(3)
  /\ selectedDate = Some(3)
  /\ signalFetches = <<[commodity |-> commodityKey, date |-> 3]>>
  /\ signalLoading

\* C28 (as claimed): after a load with a dated row the selected date is the
\* date of the latest record and a signal fetch for that date is issued, by
\* the effects that are then pending; after a load that fails or has no
\* dated row the selected date is left as it was, and the loading flag is
\* false.
C28_LoadAlwaysFetches ==
  [][LoadOutcome(EffectsPending')]_vars

=============================================================================
